---- MODULE Spec2Model ----
(***************************************************************************)
(* A model of deploy.py, the deploy script of the Soonsal Letters site.    *)
(*                                                                         *)
(* Text is modelled as a sequence of tokens.  A token is one character, or *)
(* one of the Korean words the script looks for, written in Latin letters: *)
(*   "soonsal" (the brand word), "keulibto" (crypto), "kadeunyuseu"        *)
(*   (card news), "beuliping" (briefing), and "SoonsalCrypto".             *)
(* "EM" is the em dash, "|" the bar, " " a blank, "<b>" a markup tag.      *)
(*                                                                         *)
(* An index document is modelled by the pieces the script's marker strings *)
(* and regular expressions can tell apart: the hero label, the hero link,  *)
(* and the sequence of today sections, each with a title date, its         *)
(* padding style and the links of its grid, in document order.             *)
(***************************************************************************)
EXTENDS Naturals, Sequences, FiniteSets, TLC

VARIABLES
    fname, dres,            \* detect_type: a filename and the result for it
    html, kw,               \* extract_keywords: a document and the result for it
    adoc, acalls,           \* update_archive_index alone: a document, the calls made
    pc, runs, argv, idx, items, skipped, dateq,
    home, archive, repoFiles,
    snap, migrations, lastMain, lastArch, gitlog, commitMsg

detectVars == <<fname, dres>>
kwVars == <<html, kw>>
archVars == <<adoc, acalls>>
mainVars == <<pc, runs, argv, idx, items, skipped, dateq, home, archive, repoFiles,
              snap, migrations, lastMain, lastArch, gitlog, commitMsg>>
vars == <<detectVars, kwVars, archVars, mainVars>>
notMain == <<detectVars, kwVars, archVars>>

None == "None"

\* An optional value is a sequence: empty for none, else its one value.
No == <<>>
Some(v) == <<v>>
The(o) == o[1]

(***************************************************************************)
(* Bounds of the model.                                                    *)
(***************************************************************************)
MaxNameLen == 4
MaxHeads == 1
MaxSections == 2
MaxCalls == 2
MaxRuns == 2
MaxArgs == 2

(***************************************************************************)
(* Sequences as text.                                                      *)
(***************************************************************************)
Min(a, b) == IF a <= b THEN a ELSE b

\* All sequences over S of length 0..n.
SeqsUpTo(S, n) == UNION {[1..k -> S] : k \in 0..n}

\* s[i..] starts with sub.
MatchAt(s, sub, i) ==
    /\ i + Len(sub) - 1 <= Len(s)
    /\ \A j \in 1..Len(sub) : s[i + j - 1] = sub[j]

\* str.find: the first index where sub occurs in s, 0 when it does not.
Find(s, sub) ==
    IF \E i \in 1..Len(s) + 1 : MatchAt(s, sub, i)
    THEN CHOOSE i \in 1..Len(s) + 1 :
            /\ MatchAt(s, sub, i)
            /\ \A j \in 1..i - 1 : ~MatchAt(s, sub, j)
    ELSE 0

\* sub in s
Contains(s, sub) == Find(s, sub) # 0

RECURSIVE LStrip(_)
LStrip(s) == IF s # <<>> /\ Head(s) = " " THEN LStrip(Tail(s)) ELSE s

RECURSIVE RStrip(_)
RStrip(s) ==
    IF s # <<>> /\ s[Len(s)] = " " THEN RStrip(SubSeq(s, 1, Len(s) - 1)) ELSE s

\* str.strip()
Strip(s) == RStrip(LStrip(s))

\* s.split(sep)[0]
SplitHead(s, sep) == SubSeq(s, 1, Find(s, sep) - 1)

\* s.split(sep, 1)[-1]
SplitRest(s, sep) == SubSeq(s, Find(s, sep) + Len(sep), Len(s))

RECURSIVE Join(_, _)
\* sep.join(ss)
Join(ss, sep) ==
    IF ss = <<>> THEN <<>>
    ELSE IF Len(ss) = 1 THEN ss[1]
    ELSE ss[1] \o sep \o Join(Tail(ss), sep)

(***************************************************************************)
(* Configuration.                                                          *)
(***************************************************************************)
TYPES == <<
    [prefix |-> <<"soonsal", "keulibto", "kadeunyuseu">>, ctype |-> "crypto-card",
     directory |-> "cardnews", suffix |-> "-crypto"],
    [prefix |-> <<"soonsal", "kadeunyuseu">>, ctype |-> "card",
     directory |-> "cardnews", suffix |-> ""],
    [prefix |-> <<"soonsal", "keulibto">>, ctype |-> "crypto",
     directory |-> "newsletters", suffix |-> "-crypto"],
    [prefix |-> <<"soonsal", "beuliping">>, ctype |-> "briefing",
     directory |-> "newsletters", suffix |-> ""],
    [prefix |-> <<"SoonsalCrypto">>, ctype |-> "english",
     directory |-> "english", suffix |-> ""] >>

CTypes == {"briefing", "crypto", "card", "crypto-card", "english"}

MAIN_TAGS == [t \in CTypes |->
    CASE t = "briefing" -> "main:briefing"
      [] t = "crypto" -> "tag-crypto"
      [] t = "card" -> "tag-card"
      [] t = "crypto-card" -> "tag-card"
      [] t = "english" -> "tag-en"]

ARCHIVE_TAGS == [t \in CTypes |->
    CASE t = "briefing" -> "tag-briefing"
      [] t = "crypto" -> "tag-crypto"
      [] t = "card" -> "tag-card"
      [] t = "crypto-card" -> "tag-card tag-crypto"
      [] t = "english" -> "tag-en"]

LABELS == [t \in CTypes |->
    CASE t = "briefing" -> <<"soonsal", "beuliping">>
      [] t = "crypto" -> <<"soonsal", "keulibto">>
      [] t = "card" -> <<"soonsal", "kadeunyuseu">>
      [] t = "crypto-card" -> <<"soonsal", "keulibto", "kadeunyuseu">>
      [] t = "english" -> <<>>]

ORDER == [t \in CTypes |->
    CASE t = "briefing" -> 0
      [] t = "crypto" -> 1
      [] t = "card" -> 2
      [] t = "crypto-card" -> 3
      [] t = "english" -> 4]

(***************************************************************************)
(* detect_type and extract_date.                                           *)
(***************************************************************************)
Unrecognized == [ctype |-> None, directory |-> None, suffix |-> None]

RuleResult(r) == [ctype |-> r.ctype, directory |-> r.directory, suffix |-> r.suffix]

RECURSIVE FirstRule(_, _, _)
\* The loop of detect_type from rule k on: the first rule whose prefix is in filename.
FirstRule(rules, filename, k) ==
    IF k > Len(rules) THEN Unrecognized
    ELSE IF Contains(filename, rules[k].prefix) THEN RuleResult(rules[k])
    ELSE FirstRule(rules, filename, k + 1)

detect_typeShortFirst(filename) ==
    FirstRule(<<TYPES[3], TYPES[2], TYPES[1], TYPES[4], TYPES[5]>>, filename, 1)

detect_type(filename) == FirstRule(TYPES, filename, 1)

Digits == {"0", "1", "2", "3", "4", "5", "6", "7", "8", "9"}

\* No match: the groups of a match are never empty.
NoDate == [yyyy |-> <<>>, mmdd |-> <<>>, fmt |-> <<>>]

\* yyyy, mm + dd, and "yyyy.mm.dd"
DateParts(yyyy, mm, dd) ==
    [yyyy |-> yyyy, mmdd |-> mm \o dd, fmt |-> yyyy \o <<".">> \o mm \o <<".">> \o dd]

DigitsAt(s, i, n) == i + n - 1 <= Len(s) /\ \A j \in i..i + n - 1 : s[j] \in Digits

\* re.search(r"(\d{4})(\d{2})(\d{2})", filename): the leftmost run of 8 digits.
extract_date(filename) ==
    IF \E i \in 1..Len(filename) : DigitsAt(filename, i, 8)
    THEN LET i == CHOOSE i \in 1..Len(filename) :
                    /\ DigitsAt(filename, i, 8)
                    /\ \A j \in 1..i - 1 : ~DigitsAt(filename, j, 8)
         IN DateParts(SubSeq(filename, i, i + 3), SubSeq(filename, i + 4, i + 5),
                      SubSeq(filename, i + 6, i + 7))
    ELSE NoDate

(***************************************************************************)
(* extract_keywords.  A document is what the three regular expressions     *)
(* find in it: meta is the content of the first soonsal-keywords meta tag  *)
(* (one or more characters), heads the inner texts of the story-title      *)
(* headings in order, title the inner text of the first title element;     *)
(* meta and title are optional values.                                     *)
(***************************************************************************)
TitleCut == 40

IsTag(ch) == ch = "<b>"

\* re.sub(r"<[^>]+>", "", t)
RemoveTags(t) == SelectSeq(t, LAMBDA ch : ~IsTag(ch))

HeadSeps == << <<" ", "EM", " ">>, <<"EM">> >>
TitleSeps == << <<" ", "EM", " ">>, <<" ", "|", " ">>, <<"EM">>, <<"|">> >>

RECURSIVE FirstSep(_, _, _)
\* The first separator of seps, from k on, that is in t; 0 when none is.
FirstSep(seps, t, k) ==
    IF k > Len(seps) THEN 0
    ELSE IF Contains(t, seps[k]) THEN k
    ELSE FirstSep(seps, t, k + 1)

\* One story title: markup removed, cut at the first separator, else at 40.
HeadKeyword(t) ==
    LET clean == Strip(RemoveTags(t))
        k == FirstSep(HeadSeps, clean, 1)
    IN IF k # 0 THEN Strip(SplitHead(clean, HeadSeps[k]))
       ELSE Strip(SubSeq(clean, 1, Min(TitleCut, Len(clean))))

RECURSIVE HeadKeywords(_)
HeadKeywords(titles) ==
    IF titles = <<>> THEN <<>>
    ELSE <<HeadKeyword(Head(titles))>> \o HeadKeywords(Tail(titles))

\* The title element: markup removed, the brand prefix cut off.
TitleKeyword(title) ==
    LET t == Strip(RemoveTags(title))
        k == FirstSep(TitleSeps, t, 1)
    IN IF k # 0 THEN Strip(SplitRest(t, TitleSeps[k])) ELSE t

Untitled == <<"Untitled">>

extract_keywordsHeadsFirst(h, ctype) ==
    IF h.heads # <<>> THEN Join(HeadKeywords(h.heads), <<",", " ">>)
    ELSE IF h.meta # No THEN Strip(The(h.meta))
    ELSE IF h.title # No THEN TitleKeyword(The(h.title))
    ELSE Untitled

extract_keywords(h, ctype) ==
    IF h.meta # No THEN Strip(The(h.meta))
    ELSE IF h.heads # <<>> THEN Join(HeadKeywords(h.heads), <<",", " ">>)
    ELSE IF h.title # No THEN TitleKeyword(The(h.title))
    ELSE Untitled

(***************************************************************************)
(* Paths, links and items.                                                 *)
(***************************************************************************)
\* f"{directory}/{yyyy}/{mmdd}{suffix}.html"
deploy_path(directory, yyyy, mmdd, suffix) ==
    <<directory, "/">> \o yyyy \o <<"/">> \o mmdd
        \o (IF suffix = "" THEN <<>> ELSE <<suffix>>) \o <<".html">>

\* The <a> element of an index: its target, its tag and its text.
build_link(href, tag, label, keywords) ==
    [href |-> href, tag |-> tag,
     text |-> IF label # <<>> THEN label \o <<" ", "MIDDOT", " ">> \o keywords
              ELSE keywords]

RECURSIVE SortFrom(_, _)
\* sorted(its, key=ORDER[type]) from key k on; the sort is stable.
SortFrom(its, k) ==
    IF k > 4 THEN <<>>
    ELSE SelectSeq(its, LAMBDA i : ORDER[i.type] = k) \o SortFrom(its, k + 1)

SortByOrder(its) == SortFrom(its, 0)

RECURSIVE MainLinks(_)
MainLinks(its) ==
    IF its = <<>> THEN <<>>
    ELSE LET i == Head(its)
         IN <<build_link(<<"/">> \o i.deploy_path, MAIN_TAGS[i.type], LABELS[i.type],
                         i.keywords)>> \o MainLinks(Tail(its))

(***************************************************************************)
(* The main index: hero is the date of the "Latest" label, heroLink the    *)
(* year and month-day of the hero iframe's target, today the sections.     *)
(***************************************************************************)
\* The first section of secs titled date; 0 when there is none.
SectionOf(secs, date) ==
    IF \E i \in 1..Len(secs) : secs[i].date = date
    THEN CHOOSE i \in 1..Len(secs) :
            /\ secs[i].date = date
            /\ \A j \in 1..i - 1 : secs[j].date # date
    ELSE 0

get_hero_info(c) ==
    IF c.hero # <<>>
    THEN DateParts(SubSeq(c.hero, 1, 4), SubSeq(c.hero, 6, 7), SubSeq(c.hero, 9, 10))
    ELSE NoDate

\* The title date of the first section whose div carries no style.
get_first_today_date(c) ==
    IF \E i \in 1..Len(c.today) : ~c.today[i].padded
    THEN LET i == CHOOSE i \in 1..Len(c.today) :
                    /\ ~c.today[i].padded
                    /\ \A j \in 1..i - 1 : c.today[j].padded
         IN c.today[i].date
    ELSE <<>>

MainDateExistsNever(c, date_fmt) == FALSE

\* f"{date_fmt} [all contents]" in c
MainDateExists(c, date_fmt) == SectionOf(c.today, date_fmt) # 0

\* Step 1, lines 176-184: the hero label and the hero iframe's target.
UpdateHero(c, old, date_fmt, yyyy, mmdd) ==
    [c EXCEPT !.hero = IF @ = old.fmt THEN date_fmt ELSE @,
              !.heroLink = IF @ = [yyyy |-> old.yyyy, mmdd |-> old.mmdd]
                           THEN [yyyy |-> yyyy, mmdd |-> mmdd] ELSE @]

\* Step 1, lines 186-206: the old briefing's link at the head of the old date's grid.
BackFill(c, files, old) ==
    LET old_brief_path == deploy_path("newsletters", old.yyyy, old.mmdd, "")
    IN IF old_brief_path \in DOMAIN files
       THEN LET old_kw == extract_keywords(files[old_brief_path], "briefing")
                old_brief_link ==
                    build_link(<<"/">> \o old_brief_path, MAIN_TAGS["briefing"],
                               LABELS["briefing"], old_kw)
                pos == SectionOf(c.today, old.fmt)
            IN IF pos > 0
               THEN [c EXCEPT !.today[pos].grid = <<old_brief_link>> \o @]
               ELSE c
       ELSE c

HeroStep(c, files, date_fmt, has_briefing, yyyy, mmdd) ==
    LET old == get_hero_info(c)
    IN IF has_briefing /\ old.yyyy # <<>> /\ old.mmdd # <<>>
       THEN BackFill(UpdateHero(c, old, date_fmt, yyyy, mmdd), files, old)
       ELSE c

RECURSIVE Demote(_, _)
\* c.replace(old_hdr, new_hdr): every unstyled section titled date gets padding-top:0.
Demote(secs, date) ==
    IF secs = <<>> THEN <<>>
    ELSE <<IF Head(secs).date = date /\ ~Head(secs).padded
           THEN [Head(secs) EXCEPT !.padded = TRUE] ELSE Head(secs)>>
         \o Demote(Tail(secs), date)

RECURSIVE InsertBefore(_, _, _)
\* c.replace(new_hdr, new_today + new_hdr): before every demoted section titled date.
InsertBefore(secs, date, new_today) ==
    IF secs = <<>> THEN <<>>
    ELSE (IF Head(secs).date = date /\ Head(secs).padded
          THEN <<new_today, Head(secs)>> ELSE <<Head(secs)>>)
         \o InsertBefore(Tail(secs), date, new_today)

\* Step 2, lines 209-246: the date has no section yet.
NewToday(c, its, date_fmt) ==
    LET non_brief == SortByOrder(SelectSeq(its, LAMBDA i : i.type # "briefing"))
        new_today == [date |-> date_fmt, padded |-> FALSE, grid |-> MainLinks(non_brief)]
        current_date == get_first_today_date(c)
    IN IF current_date # <<>>
       THEN LET demoted == Demote(c.today, current_date)
            IN [c EXCEPT !.today = IF non_brief # <<>>
                                   THEN InsertBefore(demoted, current_date, new_today)
                                   ELSE demoted]
       ELSE c

RECURSIVE AppendToday(_, _, _)
\* Step 2, lines 248-262: each link goes to the end of the date's grid.
AppendToday(c, links, date_fmt) ==
    IF links = <<>> THEN c
    ELSE LET pos == SectionOf(c.today, date_fmt)
             next == IF pos > 0
                     THEN [c EXCEPT !.today[pos].grid = Append(@, Head(links))]
                     ELSE c
         IN AppendToday(next, Tail(links), date_fmt)

TodayStep(c, date_exists, its, date_fmt) ==
    IF ~date_exists THEN NewToday(c, its, date_fmt)
    ELSE AppendToday(c,
            MainLinks(SelectSeq(SortByOrder(its), LAMBDA i : i.type # "briefing")),
            date_fmt)

update_main_index(c, files, its, date_fmt, has_briefing, yyyy, mmdd) ==
    LET date_exists == MainDateExists(c, date_fmt)
    IN TodayStep(HeroStep(c, files, date_fmt, has_briefing, yyyy, mmdd),
                 date_exists, its, date_fmt)

(***************************************************************************)
(* An archive index: its sections in document order, each a title date and *)
(* the links of its grid; exists tells whether the file is there.          *)
(***************************************************************************)
ArchiveLink(item) ==
    build_link(<<"/">> \o item.deploy_path, ARCHIVE_TAGS[item.type], LABELS[item.type],
               item.keywords)

\* '<div class="today-title">{date_str}</div>' in c
ArchiveDateExistsNever(c, date_str) == FALSE

ArchiveDateExists(c, date_str) == SectionOf(c.sections, date_str) # 0

\* Lines 294-300: the link goes to the end of the date's grid.
ArchiveAppend(c, date_str, link) ==
    LET pos == SectionOf(c.sections, date_str)
    IN IF pos > 0 THEN [c EXCEPT !.sections[pos].grid = Append(@, link)] ELSE c

ArchiveInsertLast(c, date_str, link) ==
    IF Len(c.sections) >= 1
    THEN [c EXCEPT !.sections = @ \o <<[date |-> date_str, grid |-> <<link>>]>>]
    ELSE c

\* Lines 301-313: a new section before the first section, when there is one.
ArchiveInsert(c, date_str, link) ==
    IF Len(c.sections) >= 1
    THEN [c EXCEPT !.sections = <<[date |-> date_str, grid |-> <<link>>]>> \o @]
    ELSE c

update_archive_index(c, item) ==
    IF ~c.exists THEN c
    ELSE IF ArchiveDateExists(c, item.date_formatted)
    THEN ArchiveAppend(c, item.date_formatted, ArchiveLink(item))
    ELSE ArchiveInsert(c, item.date_formatted, ArchiveLink(item))

(***************************************************************************)
(* main: one run of the script, step by step.                              *)
(***************************************************************************)
MsgCut == 30

DigitSeq == <<"0", "1", "2", "3", "4", "5", "6", "7", "8", "9">>

\* The rank of a character in string comparison: "." sorts before the digits.
Rank(ch) == IF ch \in Digits THEN CHOOSE n \in 1..10 : DigitSeq[n] = ch ELSE 0

RECURSIVE LexLess(_, _)
LexLess(a, b) ==
    IF b = <<>> THEN FALSE
    ELSE IF a = <<>> THEN TRUE
    ELSE IF Head(a) = Head(b) THEN LexLess(Tail(a), Tail(b))
    ELSE Rank(Head(a)) < Rank(Head(b))

RECURSIVE SortDates(_)
\* sorted(S) for a set of date strings
SortDates(S) ==
    IF S = {} THEN <<>>
    ELSE LET m == CHOOSE x \in S : \A y \in S \ {x} : LexLess(x, y)
         IN <<m>> \o SortDates(S \ {m})

\* sorted(set(i["date_formatted"] for i in items))
dates(its) == SortDates({its[i].date_formatted : i \in 1..Len(its)})

date_itemsAll(its, date_fmt) == its

\* [i for i in items if i["date_formatted"] == date_fmt]
date_items(its, date_fmt) == SelectSeq(its, LAMBDA i : i.date_formatted = date_fmt)

\* any(i["type"] == "briefing" for i in date_items)
has_briefing(its) == \E i \in 1..Len(its) : its[i].type = "briefing"

\* The item of one input file, lines 350-369.
Item(file, t, d) ==
    [type |-> t.ctype, directory |-> t.directory, yyyy |-> d.yyyy, mmdd |-> d.mmdd,
     date_formatted |-> d.fmt, keywords |-> extract_keywords(file.html, t.ctype),
     deploy_path |-> deploy_path(t.directory, d.yyyy, d.mmdd, t.suffix)]

ParsesTypeOnly(filename) == detect_type(filename).ctype # None

\* not (not ctype or not yyyy), line 343
Parses(filename) ==
    detect_type(filename).ctype # None /\ extract_date(filename).yyyy # <<>>

run_unchecked(ok, nextpc) == nextpc

\* subprocess.run(..., check=True): a failed call raises and ends the run.
run_checked(ok, nextpc) == IF ok THEN nextpc ELSE "failed"

RECURSIVE CommitNames(_)
\* [LABELS.get(i["type"]) or i["keywords"][:30] for i in items]
CommitNames(its) ==
    IF its = <<>> THEN <<>>
    ELSE LET i == Head(its)
         IN <<IF LABELS[i.type] # <<>> THEN LABELS[i.type]
              ELSE SubSeq(i.keywords, 1, Min(MsgCut, Len(i.keywords)))>>
            \o CommitNames(Tail(its))

(***************************************************************************)
(* The input files of the runs and the repository the first run finds.     *)
(***************************************************************************)
D0 == <<"2", "0", "2", "6", "0", "2", "2", "8">>
D1 == <<"2", "0", "2", "6", "0", "3", "0", "1">>
D2 == <<"2", "0", "2", "6", "0", "3", "0", "2">>

Fmt(d) == extract_date(d).fmt

\* meta and title: a text, or <<>> for none (these files have no empty title).
Html(meta, heads, title) ==
    [meta |-> IF meta = <<>> THEN No ELSE Some(meta), heads |-> heads,
     title |-> IF title = <<>> THEN No ELSE Some(title)]

File(prefix, date, h) == [name |-> prefix \o <<"_">> \o date \o <<".html">>, html |-> h]

BriefD0 == File(<<"soonsal", "beuliping">>, D0, Html(<<"b0">>, <<>>, <<>>))
BriefD1 == File(<<"soonsal", "beuliping">>, D1, Html(<<"b1">>, <<>>, <<>>))
BriefD2 ==
    File(<<"soonsal", "beuliping">>, D2,
         Html(<<>>, << <<"b2", " ", "EM", " ", "x">> >>, <<>>))
CryptoD0 == File(<<"soonsal", "keulibto">>, D0, Html(<<"c0">>, <<>>, <<>>))
CryptoD1 ==
    File(<<"soonsal", "keulibto">>, D1,
         Html(<<>>, <<>>, <<"soonsal", "keulibto", " ", "|", " ", "c1">>))
NoPrefix == File(<<"memo">>, D1, Html(<<"m">>, <<>>, <<>>))
NoDateName ==
    [name |-> <<"soonsal", "beuliping", "_", "2", "0", "2", "6", ".html">>,
     html |-> Html(<<"n">>, <<>>, <<>>)]

InputFiles == {BriefD1, BriefD2, CryptoD1, NoPrefix, NoDateName}

\* Command lines: up to MaxArgs files, no file twice.
ArgLists ==
    {a \in SeqsUpTo(InputFiles, MaxArgs) :
        \A i, j \in 1..Len(a) : i # j => a[i] # a[j]}

ItemOf(file) == Item(file, detect_type(file.name), extract_date(file.name))

Home0 ==
    [hero |-> Fmt(D0),
     heroLink |-> [yyyy |-> extract_date(D0).yyyy, mmdd |-> extract_date(D0).mmdd],
     today |-> << [date |-> Fmt(D0), padded |-> FALSE,
                   grid |-> MainLinks(<<ItemOf(CryptoD0)>>)] >>]

Archive0 ==
    [d \in {"newsletters", "cardnews", "english"} |->
        CASE d = "newsletters" ->
                [exists |-> TRUE,
                 sections |-> << [date |-> Fmt(D0),
                                  grid |-> <<ArchiveLink(ItemOf(BriefD0)),
                                             ArchiveLink(ItemOf(CryptoD0))>>] >>]
          [] d = "cardnews" -> [exists |-> TRUE, sections |-> <<>>]
          [] d = "english" -> [exists |-> FALSE, sections |-> <<>>]]

\* The files of the repository: the crypto letter of the hero date is there, the
\* briefing of that date is not.
RepoFiles0 == (ItemOf(CryptoD0).deploy_path :> CryptoD0.html)

Terminal == {"idle", "exit1_usage", "exit1_noitems", "failed", "done"}

InitMain ==
    /\ pc = "idle"
    /\ runs = 0
    /\ argv = <<>>
    /\ idx = 1
    /\ items = <<>>
    /\ skipped = <<>>
    /\ dateq = <<>>
    /\ home = Home0
    /\ archive = Archive0
    /\ repoFiles = RepoFiles0
    /\ snap = No
    /\ migrations = 0
    /\ lastMain = No
    /\ lastArch = No
    /\ gitlog = <<>>
    /\ commitMsg = No

\* python3 deploy.py a[1] a[2] ...
Invoke(a) ==
    /\ UNCHANGED notMain
    /\ pc \in Terminal
    /\ runs < MaxRuns
    /\ runs' = runs + 1
    /\ argv' = a
    /\ pc' = "start"
    /\ idx' = 1
    /\ items' = <<>>
    /\ skipped' = <<>>
    /\ dateq' = <<>>
    /\ snap' = Some([home |-> home, archive |-> archive, repoFiles |-> repoFiles])
    /\ migrations' = 0
    /\ lastMain' = No
    /\ lastArch' = No
    /\ gitlog' = <<>>
    /\ commitMsg' = No
    /\ UNCHANGED <<home, archive, repoFiles>>

\* Lines 325-328: no file argument.
Main_Usage ==
    /\ UNCHANGED notMain
    /\ pc = "start"
    /\ Len(argv) < 1
    /\ pc' = "exit1_usage"
    /\ UNCHANGED <<runs, argv, idx, items, skipped, dateq, home, archive, repoFiles,
                   snap, migrations, lastMain, lastArch, gitlog, commitMsg>>

\* Lines 330-332: git pull.
Main_Pull ==
    /\ UNCHANGED notMain
    /\ pc = "start"
    /\ Len(argv) >= 1
    /\ \E ok \in BOOLEAN :
        /\ pc' = run_checked(ok, "parse")
        /\ gitlog' = Append(gitlog, [cmd |-> "pull", ok |-> ok])
    /\ UNCHANGED <<runs, argv, idx, items, skipped, dateq, home, archive, repoFiles,
                   snap, migrations, lastMain, lastArch, commitMsg>>

\* Lines 336-369: one input file is skipped, or copied and made an item.
Main_ParseFile ==
    /\ UNCHANGED notMain
    /\ pc = "parse"
    /\ idx <= Len(argv)
    /\ LET file == argv[idx]
       IN IF ~Parses(file.name)
          THEN /\ skipped' = Append(skipped, file.name)
               /\ UNCHANGED <<items, repoFiles, gitlog>>
          ELSE LET item == ItemOf(file)
               IN /\ repoFiles' = (item.deploy_path :> file.html) @@ repoFiles
                  /\ items' = Append(items, item)
                  /\ gitlog' = Append(gitlog, [cmd |-> "copy", ok |-> TRUE])
                  /\ UNCHANGED skipped
    /\ idx' = idx + 1
    /\ UNCHANGED <<pc, runs, argv, dateq, home, archive, snap, migrations, lastMain,
                   lastArch, commitMsg>>

\* Lines 371-376: no item ends the run; else the dates are sorted.
Main_CheckItems ==
    /\ UNCHANGED notMain
    /\ pc = "parse"
    /\ idx > Len(argv)
    /\ IF items = <<>>
       THEN pc' = "exit1_noitems" /\ UNCHANGED dateq
       ELSE pc' = "update_main" /\ dateq' = dates(items)
    /\ UNCHANGED <<runs, argv, idx, items, skipped, home, archive, repoFiles,
                   snap, migrations, lastMain, lastArch, gitlog, commitMsg>>

\* Lines 377-384: update_main_index for the next date.
Main_UpdateMain ==
    /\ UNCHANGED notMain
    /\ pc = "update_main"
    /\ LET date_fmt == Head(dateq)
           its == date_items(items, date_fmt)
       IN /\ home' = update_main_index(home, repoFiles, its, date_fmt,
                                       has_briefing(its), its[1].yyyy, its[1].mmdd)
          /\ lastMain' = Some([pre |-> home, files |-> repoFiles, items |-> its,
                               date_fmt |-> date_fmt,
                               has_briefing |-> has_briefing(its)])
    /\ migrations' = IF home'.hero # home.hero THEN migrations + 1 ELSE migrations
    /\ gitlog' = Append(gitlog, [cmd |-> "write_main", ok |-> TRUE])
    /\ pc' = "update_arch"
    /\ idx' = 1
    /\ UNCHANGED <<runs, argv, items, skipped, dateq, archive, repoFiles, snap,
                   lastArch, commitMsg>>

\* Lines 386-387: update_archive_index for the next item of the date.
Main_UpdateArchive ==
    /\ UNCHANGED notMain
    /\ pc = "update_arch"
    /\ LET its == date_items(items, Head(dateq))
           item == its[idx]
       IN /\ archive' = [archive EXCEPT ![item.directory] = update_archive_index(@, item)]
          /\ lastArch' = Some([pre |-> archive[item.directory], item |-> item])
          /\ gitlog' = IF archive[item.directory].exists
                        THEN Append(gitlog, [cmd |-> "write_archive", ok |-> TRUE])
                        ELSE gitlog
          /\ IF idx < Len(its)
             THEN idx' = idx + 1 /\ UNCHANGED <<pc, dateq>>
             ELSE /\ idx' = 1
                  /\ dateq' = Tail(dateq)
                  /\ pc' = IF Tail(dateq) = <<>> THEN "add" ELSE "update_main"
    /\ UNCHANGED <<runs, argv, items, skipped, home, repoFiles, snap, migrations,
                   lastMain, commitMsg>>

\* Line 391: git add -A.
Main_GitAdd ==
    /\ UNCHANGED notMain
    /\ pc = "add"
    /\ \E ok \in BOOLEAN :
        /\ pc' = run_checked(ok, "commit")
        /\ gitlog' = Append(gitlog, [cmd |-> "add", ok |-> ok])
    /\ UNCHANGED <<runs, argv, idx, items, skipped, dateq, home, archive, repoFiles,
                   snap, migrations, lastMain, lastArch, commitMsg>>

\* Lines 393-397: git commit with the generated message.
Main_GitCommit ==
    /\ UNCHANGED notMain
    /\ pc = "commit"
    /\ commitMsg' = Some([names |-> CommitNames(items), mmdd |-> items[1].mmdd])
    /\ \E ok \in BOOLEAN :
        /\ pc' = run_checked(ok, "push")
        /\ gitlog' = Append(gitlog, [cmd |-> "commit", ok |-> ok])
    /\ UNCHANGED <<runs, argv, idx, items, skipped, dateq, home, archive, repoFiles,
                   snap, migrations, lastMain, lastArch>>

\* Lines 398-399: git push.
Main_GitPush ==
    /\ UNCHANGED notMain
    /\ pc = "push"
    /\ \E ok \in BOOLEAN :
        /\ pc' = run_checked(ok, "done")
        /\ gitlog' = Append(gitlog, [cmd |-> "push", ok |-> ok])
    /\ UNCHANGED <<runs, argv, idx, items, skipped, dateq, home, archive, repoFiles,
                   snap, migrations, lastMain, lastArch, commitMsg>>

IdleDetect == fname = <<>> /\ dres = No
IdleKw == html = [meta |-> No, heads |-> <<>>, title |-> No] /\ kw = No
IdleArch == adoc = [exists |-> FALSE, sections |-> <<>>] /\ acalls = <<>>

MainIdle ==
    /\ pc = "idle" /\ runs = 0 /\ argv = <<>> /\ idx = 1 /\ items = <<>>
    /\ skipped = <<>> /\ dateq = <<>> /\ home = Home0 /\ archive = Archive0
    /\ repoFiles = RepoFiles0 /\ snap = No /\ migrations = 0 /\ lastMain = No
    /\ lastArch = No /\ gitlog = <<>> /\ commitMsg = No

Init == InitMain /\ IdleDetect /\ IdleKw /\ IdleArch

Next ==
    \/ \E a \in ArgLists : Invoke(a)
    \/ Main_Usage
    \/ Main_Pull
    \/ Main_ParseFile
    \/ Main_CheckItems
    \/ Main_UpdateMain
    \/ Main_UpdateArchive
    \/ Main_GitAdd
    \/ Main_GitCommit
    \/ Main_GitPush

Spec == Init /\ [][Next]_vars

(***************************************************************************)
(* detect_type on every filename of up to MaxNameLen tokens.               *)
(***************************************************************************)
NameTokens == {"soonsal", "keulibto", "kadeunyuseu", "beuliping", "SoonsalCrypto", "_"}

InitDetect ==
    /\ fname \in SeqsUpTo(NameTokens, MaxNameLen)
    /\ dres = No
    /\ MainIdle /\ IdleKw /\ IdleArch

Detect ==
    /\ dres = No
    /\ dres' = Some(detect_type(fname))
    /\ UNCHANGED <<fname, kwVars, archVars, mainVars>>

NextDetect == Detect

SpecDetect == InitDetect /\ [][NextDetect]_vars

(***************************************************************************)
(* extract_keywords on documents made of the texts below.                  *)
(***************************************************************************)
LongText == [i \in 1..TitleCut + 1 |-> "a"]

Texts ==
    { <<>>, <<" ">>, <<"a">>, <<" ", "a", " ">>, <<"<b>", "a", "<b>">>,
      <<"a", " ", "EM", " ", "b">>, <<"a", "EM", "b">>, <<"EM", "b">>,
      <<"a", " ", "|", " ", "b">>, <<"a", "|", "b">>, <<"a", " ", "EM">>,
      LongText }

HtmlDocs ==
    [meta : {No} \cup {Some(t) : t \in Texts \ {<<>>}},
     heads : SeqsUpTo(Texts, MaxHeads),
     title : {No} \cup {Some(t) : t \in Texts}]

InitKw ==
    /\ html \in HtmlDocs
    /\ kw = No
    /\ MainIdle /\ IdleDetect /\ IdleArch

ExtractKw ==
    /\ kw = No
    /\ kw' = Some(extract_keywords(html, "briefing"))
    /\ UNCHANGED <<html, detectVars, archVars, mainVars>>

NextKw == ExtractKw

SpecKw == InitKw /\ [][NextKw]_vars

(***************************************************************************)
(* update_archive_index on the newsletters index, from every document of   *)
(* up to MaxSections sections, for up to MaxCalls calls.                    *)
(***************************************************************************)
ArchItems == {ItemOf(f) : f \in {BriefD0, BriefD1, BriefD2, CryptoD1}}

ArchDates == {Fmt(D0), Fmt(D1), Fmt(D2)}

\* The documents: sections of distinct dates, each with one entry.
ArchDocs ==
    {[exists |-> e, sections |-> ss] :
        e \in BOOLEAN,
        ss \in {q \in SeqsUpTo([date : ArchDates,
                                grid : {<<ArchiveLink(ItemOf(CryptoD0))>>}], MaxSections) :
                    \A i, j \in 1..Len(q) : i # j => q[i].date # q[j].date}}

InitArchive ==
    /\ adoc \in {d \in ArchDocs : d.exists \/ d.sections = <<>>}
    /\ acalls = <<>>
    /\ MainIdle /\ IdleDetect /\ IdleKw

ArchiveCall(item) ==
    /\ Len(acalls) < MaxCalls
    /\ adoc' = update_archive_index(adoc, item)
    /\ acalls' = Append(acalls, [item |-> item, before |-> adoc])
    /\ UNCHANGED <<detectVars, kwVars, mainVars>>

NextArchive == \E item \in ArchItems : ArchiveCall(item)

SpecArchive == InitArchive /\ [][NextArchive]_vars

(***************************************************************************)
(* Properties.                                                             *)
(***************************************************************************)
HasDate(secs, d) == \E i \in 1..Len(secs) : secs[i].date = d

CountDate(secs, d) == Cardinality({i \in 1..Len(secs) : secs[i].date = d})

UniqueDates(secs) == \A i, j \in 1..Len(secs) : i # j => secs[i].date # secs[j].date

InGrid(grid, link) == \E i \in 1..Len(grid) : grid[i] = link

RECURSIVE IsSubseq(_, _)
\* a is b with some elements left out.
IsSubseq(a, b) ==
    IF a = <<>> THEN TRUE
    ELSE IF b = <<>> THEN FALSE
    ELSE IF Head(a) = Head(b) THEN IsSubseq(Tail(a), Tail(b))
    ELSE IsSubseq(a, Tail(b))

\* Every section of old is in new, in the same order, with its entries kept in order.
OnlyAdded(old, new) ==
    /\ IsSubseq([i \in 1..Len(old) |-> old[i].date], [i \in 1..Len(new) |-> new[i].date])
    /\ \A i \in 1..Len(old) :
        \E j \in 1..Len(new) :
            new[j].date = old[i].date /\ IsSubseq(old[i].grid, new[j].grid)

\* C1: detect_type returns the result of the first rule of TYPES, in order, whose
\* prefix occurs in the filename, and Unrecognized exactly when no prefix occurs;
\* a rule whose prefix contains another rule's prefix stands before it, so a
\* filename with the longer prefix never gets the shorter rule's result.
C1_FirstMatchWins ==
    dres # No =>
        LET r == The(dres)
            hits == {k \in 1..Len(TYPES) : Contains(fname, TYPES[k].prefix)}
        IN /\ (hits = {}) <=> (r = Unrecognized)
           /\ hits # {} =>
                \E k \in hits : (\A j \in hits : k <= j) /\ r = RuleResult(TYPES[k])
           /\ \A i, j \in 1..Len(TYPES) :
                i # j /\ Contains(TYPES[i].prefix, TYPES[j].prefix) => i < j
           /\ \A i, j \in hits :
                i # j /\ Contains(TYPES[i].prefix, TYPES[j].prefix)
                    => r # RuleResult(TYPES[j])

C1_Witness ==
    /\ dres # No
    /\ Contains(fname, TYPES[1].prefix)
    /\ The(dres).ctype = "crypto-card"

\* What each strategy of extract_keywords yields for a document, <<>> when its
\* pattern does not occur.
StrategyText(h) ==
    << IF h.meta # No THEN Strip(The(h.meta)) ELSE <<>>,
       IF h.heads # <<>> THEN Join(HeadKeywords(h.heads), <<",", " ">>) ELSE <<>>,
       IF h.title # No THEN TitleKeyword(The(h.title)) ELSE <<>> >>

\* The strategies whose pattern occurs in the document.
StrategyMatches(h) ==
    {k \in 1..3 : \/ k = 1 /\ h.meta # No
                  \/ k = 2 /\ h.heads # <<>>
                  \/ k = 3 /\ h.title # No}

\* C9 as stated: the result is that of the first strategy, in the order meta tag,
\* story headings, title element, that produced text, and "Untitled" is returned
\* exactly when none of the three produced text.
C9_UntitledIffNoText ==
    kw # No =>
        LET p == StrategyText(html)
            good == {k \in 1..3 : p[k] # <<>>}
        IN /\ good # {} => \E k \in good : (\A j \in good : k <= j) /\ The(kw) = p[k]
           /\ (good = {}) <=> (The(kw) = Untitled)

\* C9 as amended: the result is that of the first strategy, in the order meta
\* tag, story headings, title element, whose pattern occurs in the document, even
\* when that result is empty; with a keywords tag and story headings the result is
\* the tag's content, trimmed; "Untitled" is returned when no pattern occurs.
C9_FirstMatchingStrategy ==
    kw # No =>
        LET p == StrategyText(html)
            tried == StrategyMatches(html)
        IN /\ tried # {} => \E k \in tried : (\A j \in tried : k <= j) /\ The(kw) = p[k]
           /\ tried = {} => The(kw) = Untitled
           /\ html.meta # No /\ html.heads # <<>> => The(kw) = Strip(The(html.meta))

C9_Witness ==
    /\ kw # No
    /\ html.meta # No
    /\ html.heads # <<>>
    /\ The(kw) = <<"a">>
    /\ html.heads[1] = <<"a", " ", "EM", " ", "b">>
    /\ The(html.meta) = <<" ", "a", " ">>

\* The document after call i of update_archive_index.
After(i) == IF i < Len(acalls) THEN acalls[i + 1].before ELSE adoc

NewSection(item) == [date |-> item.date_formatted, grid |-> <<ArchiveLink(item)>>]

\* C4 as stated: for every archive index and every entry whose date has no
\* section in it, the updated document is a new section holding just that entry,
\* followed by the sections the document had, unchanged.
C4_NewSectionFirst ==
    \A i \in 1..Len(acalls) :
        LET b == acalls[i].before
            it == acalls[i].item
        IN b.exists /\ ~HasDate(b.sections, it.date_formatted)
            => After(i).sections = <<NewSection(it)>> \o b.sections

\* C4 as amended: the same for every archive index that has at least one
\* section; an index with no section is left as it is.
C4_NewSectionFirstIfAny ==
    \A i \in 1..Len(acalls) :
        LET b == acalls[i].before
            it == acalls[i].item
        IN b.exists /\ ~HasDate(b.sections, it.date_formatted)
            => IF b.sections # <<>>
               THEN After(i).sections = <<NewSection(it)>> \o b.sections
               ELSE After(i) = b

C4_Witness ==
    /\ Len(acalls) = 1
    /\ Len(acalls[1].before.sections) = 2
    /\ ~HasDate(acalls[1].before.sections, acalls[1].item.date_formatted)
    /\ Len(adoc.sections) = 3
    /\ adoc.sections[1].date = acalls[1].item.date_formatted

\* Two calls in a row, i and i + 1, with the same entry, whose date had no
\* section before the first: the first makes the date's one section, holding the
\* entry; the second adds the entry at the end of that section and no section.
TwiceMakesOne(i) ==
    LET b == acalls[i].before
        it == acalls[i].item
        d == it.date_formatted
        a1 == After(i).sections
        a2 == After(i + 1).sections
    IN /\ Len(a1) = Len(b.sections) + 1
       /\ CountDate(a1, d) = 1
       /\ Len(a2) = Len(a1)
       /\ CountDate(a2, d) = 1
       /\ \E k \in 1..Len(a1) :
            /\ a1[k] = NewSection(it)
            /\ a2 = [a1 EXCEPT ![k].grid = <<ArchiveLink(it), ArchiveLink(it)>>]

\* C5 as stated: update_archive_index twice with the same entry, for a date that
\* has no section, makes the section once and then appends to it.
C5_TwiceOneSection ==
    \A i \in 1..Len(acalls) - 1 :
        LET b == acalls[i].before
        IN /\ acalls[i].item = acalls[i + 1].item
           /\ b.exists
           /\ ~HasDate(b.sections, acalls[i].item.date_formatted)
           => TwiceMakesOne(i)

\* C5 as amended: the same when the index has at least one section; an index
\* with no section is left as it is by both calls.
C5_TwiceOneSectionIfAny ==
    \A i \in 1..Len(acalls) - 1 :
        LET b == acalls[i].before
        IN /\ acalls[i].item = acalls[i + 1].item
           /\ b.exists
           /\ ~HasDate(b.sections, acalls[i].item.date_formatted)
           => IF b.sections # <<>> THEN TwiceMakesOne(i)
              ELSE After(i) = b /\ After(i + 1) = b

C5_Witness ==
    /\ Len(acalls) = 2
    /\ acalls[1].item = acalls[2].item
    /\ acalls[1].before.sections # <<>>
    /\ ~HasDate(acalls[1].before.sections, acalls[1].item.date_formatted)
    /\ Len(adoc.sections[1].grid) = 2

\* The year and month-day of a formatted date.
PartsOf(fmt) == [yyyy |-> SubSeq(fmt, 1, 4), mmdd |-> SubSeq(fmt, 6, 7) \o SubSeq(fmt, 9, 10)]

\* The link the main index gives the briefing of the date fmt, its text made from
\* the html of that briefing's file.
BriefingLink(fmt, h) ==
    [href |-> <<"/", "newsletters", "/">> \o PartsOf(fmt).yyyy \o <<"/">>
                \o PartsOf(fmt).mmdd \o <<".html">>,
     tag |-> MAIN_TAGS["briefing"],
     text |-> LABELS["briefing"] \o <<" ", "MIDDOT", " ">> \o extract_keywords(h, "briefing")]

NonBriefing(its) == SelectSeq(its, LAMBDA i : i.type # "briefing")

\* C2: after update_main_index for a date group with a briefing, on a main index
\* that names a latest date, the hero label and the hero link name the new date,
\* and, when the file of the briefing that was latest is there, the section of
\* the date that was latest holds a link to that briefing with the keywords of its
\* file; when the file is not there the rest of the update is still made.
C2_HeroMovedOldBriefingLinked ==
    lastMain # No =>
        LET m == The(lastMain)
            old == m.pre.hero
            old_path == deploy_path("newsletters", PartsOf(old).yyyy, PartsOf(old).mmdd, "")
        IN m.has_briefing /\ old # <<>> =>
            /\ home.hero = m.date_fmt
            /\ home.heroLink = PartsOf(m.date_fmt)
            /\ old_path \in DOMAIN m.files =>
                \E k \in 1..Len(home.today) :
                    /\ home.today[k].date = old
                    /\ InGrid(home.today[k].grid, BriefingLink(old, m.files[old_path]))
            /\ HasDate(m.pre.today, m.date_fmt) => HasDate(home.today, m.date_fmt)

\* C3: after update_main_index for a date group with a non-briefing item, on a
\* main index that has no section for the date, the main index has a section for
\* the date that holds a link to every non-briefing item of the group.
C3_NewDateGetsSection ==
    lastMain # No =>
        LET m == The(lastMain)
            nb == NonBriefing(m.items)
        IN nb # <<>> /\ ~HasDate(m.pre.today, m.date_fmt) =>
            \E k \in 1..Len(home.today) :
                /\ home.today[k].date = m.date_fmt
                /\ \A i \in 1..Len(nb) :
                    InGrid(home.today[k].grid,
                           build_link(<<"/">> \o nb[i].deploy_path, MAIN_TAGS[nb[i].type],
                                      LABELS[nb[i].type], nb[i].keywords))

\* C6 as stated: in one run the hero date of the main index changes at most once.
C6_OneMigrationPerRun == migrations <= 1

\* The dates for which the batch holds a briefing.
BriefingDates ==
    {items[i].date_formatted : i \in {j \in 1..Len(items) : items[j].type = "briefing"}}

\* C6 as amended: in one run the hero date changes at most once for each date of
\* the batch that has a briefing, so never more often than the batch has dates
\* with a briefing.
C6_OneMigrationPerBriefingDate == migrations <= Cardinality(BriefingDates)

C6_Witness == pc = "done" /\ migrations = 2 /\ Cardinality(BriefingDates) = 2

\* Whether a name can be classified and dated, told from the name alone.
Classifiable(name) == \E k \in 1..Len(TYPES) : Contains(name, TYPES[k].prefix)
Dated(name) == \E i \in 1..Len(name) : DigitsAt(name, i, 8)
Usable(name) == Classifiable(name) /\ Dated(name)

\* The files among the first n of the command line that are usable, or are not.
UsableUpTo(n) == SelectSeq(SubSeq(argv, 1, n), LAMBDA f : Usable(f.name))
UnusableUpTo(n) == SelectSeq(SubSeq(argv, 1, n), LAMBDA f : ~Usable(f.name))

AfterParse == {"update_main", "update_arch", "add", "commit", "push", "done"}

Ran(cmd) == \E i \in 1..Len(gitlog) : gitlog[i].cmd = cmd

RepoAsAtStart ==
    /\ home = The(snap).home
    /\ archive = The(snap).archive
    /\ repoFiles = The(snap).repoFiles

\* C7: each file that cannot be classified or dated is skipped with a diagnostic
\* and the files after it are still handled, each usable file becoming one item;
\* the run ends with exit code 1 for want of items only when no file was usable,
\* and then no index and no file of the repository has changed and nothing was
\* staged, committed or pushed.
C7_SkipBadFilesAbortOnlyIfNone ==
    /\ pc = "parse" =>
        /\ Len(items) = Len(UsableUpTo(idx - 1))
        /\ skipped = [i \in 1..Len(UnusableUpTo(idx - 1)) |-> UnusableUpTo(idx - 1)[i].name]
    /\ pc \in AfterParse \cup {"exit1_noitems"} =>
        /\ Len(items) = Len(UsableUpTo(Len(argv)))
        /\ \A i \in 1..Len(items) :
            LET f == UsableUpTo(Len(argv))[i]
            IN /\ items[i].type = detect_type(f.name).ctype
               /\ items[i].date_formatted = extract_date(f.name).fmt
               /\ items[i].deploy_path \in DOMAIN repoFiles
        /\ Len(skipped) = Len(UnusableUpTo(Len(argv)))
    /\ pc \in AfterParse => \E i \in 1..Len(argv) : Usable(argv[i].name)
    /\ pc = "exit1_noitems" =>
        /\ \A i \in 1..Len(argv) : ~Usable(argv[i].name)
        /\ RepoAsAtStart
        /\ ~Ran("add") /\ ~Ran("commit") /\ ~Ran("push")
        /\ ~Ran("write_main") /\ ~Ran("write_archive") /\ ~Ran("copy")

C7_Witness ==
    /\ pc = "done"
    /\ Len(argv) = 2
    /\ skipped # <<>>
    /\ items # <<>>
    /\ ~Usable(argv[1].name)

\* The place of a step in a run.
Phase(cmd) ==
    CASE cmd = "pull" -> 1
      [] cmd = "copy" -> 2
      [] cmd \in {"write_main", "write_archive"} -> 3
      [] cmd = "add" -> 4
      [] cmd = "commit" -> 5
      [] cmd = "push" -> 6

GitCmds == {"pull", "add", "commit", "push"}

\* C8: a run pulls first, then copies files and edits indexes, then stages,
\* commits and pushes, each git call once; nothing of the repository is written
\* before the pull has succeeded; staging comes after the index edits of every
\* date of the batch; a git call that fails is the last step of the run.
C8_PullEditsThenPublish ==
    /\ \A i \in 1..Len(gitlog) : \A j \in 1..Len(gitlog) :
        i < j =>
            /\ Phase(gitlog[i].cmd) <= Phase(gitlog[j].cmd)
            /\ gitlog[i].cmd \in GitCmds => gitlog[i].cmd # gitlog[j].cmd
            /\ gitlog[i].ok
    /\ gitlog # <<>> => gitlog[1].cmd = "pull"
    /\ (snap # No /\ (gitlog = <<>> \/ ~gitlog[1].ok)) => RepoAsAtStart
    /\ pc = "failed" <=> (gitlog # <<>> /\ ~gitlog[Len(gitlog)].ok)
    /\ Ran("add") =>
        /\ dateq = <<>>
        /\ Cardinality({i \in 1..Len(gitlog) : gitlog[i].cmd = "write_main"})
            = Cardinality({items[i].date_formatted : i \in 1..Len(items)})
    /\ pc = "done" => Ran("pull") /\ Ran("add") /\ Ran("commit") /\ Ran("push")

C8_Witness ==
    /\ pc = "failed"
    /\ Ran("write_main")
    /\ Ran("write_archive")
    /\ gitlog[Len(gitlog)].cmd = "commit"

Directories == {"newsletters", "cardnews", "english"}

\* C10: in the main index and in every archive index each date heads at most one
\* section; a run only adds entries and sections: every section stays, in order,
\* and keeps its entries in order.
C10_OneSectionPerDate ==
    /\ UniqueDates(home.today)
    /\ \A d \in Directories : UniqueDates(archive[d].sections)
    /\ lastMain # No => OnlyAdded(The(lastMain).pre.today, home.today)
    /\ lastArch # No =>
        OnlyAdded(The(lastArch).pre.sections,
                  archive[The(lastArch).item.directory].sections)
    /\ snap # No =>
        /\ OnlyAdded(The(snap).home.today, home.today)
        /\ \A d \in Directories :
            OnlyAdded(The(snap).archive[d].sections, archive[d].sections)

\* The same date deployed again: its section holds one link twice.
C10_Witness ==
    /\ runs = 2
    /\ pc = "done"
    /\ \E k \in 1..Len(home.today) :
        /\ Len(home.today[k].grid) = 2
        /\ home.today[k].grid[1] = home.today[k].grid[2]
    /\ \E k \in 1..Len(archive["newsletters"].sections) :
        LET g == archive["newsletters"].sections[k].grid
        IN Len(g) = 2 /\ g[1] = g[2]

====
